---------------------------- MODULE Spec2Model ----------------------------
(***************************************************************************)
(* A model of Split_on_Primer.py: the bounded edit-distance routine, the   *)
(* shift-tolerant matcher (compare_sequences / find_best_primer), the      *)
(* primer table loader and the batch-synchronous main loop.                *)
(*                                                                         *)
(* Python strings are modelled as sequences of one-character strings, a    *)
(* read as <<header, <<bases>>>> (two-line format) or                      *)
(* <<header, <<bases, quality>>>> (four-line format), as the source does.  *)
(***************************************************************************)
EXTENDS Integers, Sequences, FiniteSets, TLC

VARIABLES
    pc,               \* position of main()
    args,             \* the parsed command line (mis, shift, trim, chunk_size, cores)
    primer_file,      \* rows of the primer file: <<raw name, primer sequence>>
    primer_list,      \* extract_primers: [primer_name, primer_sequence[i:], length]
    file_dictionary,  \* extract_primers: sink name -> open file handle
    disk,             \* path -> the write_read calls that reached the file
    read_generator,   \* extract_sequences: the parsed reads and how many were yielded
    group,            \* the batch main() holds
    batch_no,         \* number of batches pulled so far
    pool,             \* state of the batch's multiprocessing.Pool
    taskqueue,        \* chunks of tasks no worker has taken yet
    running,          \* worker -> the chunk it is computing (<<>> when idle)
    it,               \* the IMapUnorderedIterator: items delivered, index, length
    call,             \* main's locals size and sub_chunk; the arguments of a single call
    ret               \* a single call: <<>> before it, <<result>> after

vars == <<pc, args, primer_file, primer_list, file_dictionary, disk, read_generator,
          group, batch_no, pool, taskqueue, running, it, call, ret>>

mainVars == <<pc, args, primer_file, primer_list, file_dictionary, disk, read_generator,
              group, batch_no, pool, taskqueue, running, it>>

-----------------------------------------------------------------------------
(* Python helpers *)

Min2(a, b) == IF a <= b THEN a ELSE b

Min3(a, b, c) == Min2(a, Min2(b, c))

Abs(x) == IF x < 0 THEN 0 - x ELSE x

\* s[k:] for k >= 0 (empty when k >= len(s))
SliceFrom(s, k) == IF k >= Len(s) THEN <<>> ELSE SubSeq(s, k + 1, Len(s))

\* s[:k] for k >= 0 (the whole of s when k >= len(s))
SliceTo(s, k) == IF k >= Len(s) THEN s ELSE SubSeq(s, 1, k)

\* all sequences over S of length lo..hi
SeqsOf(S, lo, hi) == UNION {[1..n -> S] : n \in lo..hi}

\* np.arange(k): a row of k cells, cell i holding i
arange(k) == [i \in 0..(k - 1) |-> i]

-----------------------------------------------------------------------------
(* levenshetein_distance_numba, lines 142-170 *)

\* Values an out-of-bounds run of the compiled routine may return: the rows
\* hold sequence.size + 1 cells, numba checks no index, and a read or write of
\* cell primer.size > sequence.size leaves the allocation. What is read there is
\* any 64-bit integer, and what is written there may land in the other row, so
\* the returned cell is bounded neither below nor above; the range stands for
\* values below every budget, within it and above it.
UBSpan == 3

UBValues == (0 - UBSpan)..(2 * UBSpan)

\* the for loop over pos_prim, lines 154-162
RECURSIVE LevInner(_, _, _, _, _, _)
LevInner(previous, current, lowest_cost_possible, nuc_seq, primer, pos_prim) ==
    IF pos_prim >= Len(primer)
    THEN [current |-> current, lowest_cost_possible |-> lowest_cost_possible]
    ELSE LET prim_seq == primer[pos_prim + 1]
             insert == previous[pos_prim + 1] + 1
             delete == current[pos_prim] + 1
             change == previous[pos_prim] + (IF nuc_seq # prim_seq THEN 1 ELSE 0)
             minimum == Min3(insert, delete, change)
             lowest == IF minimum < lowest_cost_possible
                       THEN minimum ELSE lowest_cost_possible
         IN LevInner(previous, [current EXCEPT ![pos_prim + 1] = minimum], lowest,
                     nuc_seq, primer, pos_prim + 1)

\* the while loop over pos_seq and the two returns, lines 150-170
RECURSIVE LevOuter(_, _, _, _, _, _, _)
LevOuter(previous, current, pos_seq, lowest_cost_possible, sequence, primer, max_mis) ==
    IF pos_seq < Len(sequence) /\ lowest_cost_possible <= max_mis
    THEN LET row == LevInner(previous, [current EXCEPT ![0] = pos_seq + 1],
                             max_mis + 1, sequence[pos_seq + 1], primer, 0)
         IN LevOuter(row.current, previous, pos_seq + 1, row.lowest_cost_possible,
                     sequence, primer, max_mis)
    ELSE IF lowest_cost_possible > max_mis
         THEN lowest_cost_possible
         ELSE previous[Len(sequence)]

\* The routine wherever every index stays inside the rows
\* (primer.size <= sequence.size, or no row is ever filled).
LevInBounds(sequence, primer, max_mis) ==
    LevOuter(arange(Len(sequence) + 1), arange(Len(sequence) + 1), 0, 0,
             sequence, primer, max_mis)

\* The call indexes cell primer.size of a row of sequence.size + 1 cells.
LevOutOfBounds(sequence, primer) == Len(sequence) > 0 /\ Len(primer) > Len(sequence)

\* The set of values a call may return.
levenshetein_distance_numba(sequence, primer, max_mis) ==
    IF LevOutOfBounds(sequence, primer)
    THEN UBValues
    ELSE {LevInBounds(sequence, primer, max_mis)}

\* levenshtein_distance, lines 173-178: the byte views of the two strings
levenshtein_distance(sequence, primer, max_mis) ==
    levenshetein_distance_numba(sequence, primer, max_mis)

\* hamming_distance, lines 135-138 (zip stops at the shorter argument)
hamming_distance(sequence, primer) ==
    Cardinality({i \in 1..Min2(Len(sequence), Len(primer)) : sequence[i] # primer[i]})

-----------------------------------------------------------------------------
(* trim_primer, lines 181-189 *)

\* trim_primer without line 186: the quality string keeps the primer's positions
trim_primer_bases_only(sequence, length) ==
    IF Len(sequence[2]) > 1
    THEN <<sequence[1], <<SliceFrom(sequence[2][1], length), sequence[2][2]>>>>
    ELSE <<sequence[1], <<SliceFrom(sequence[2][1], length)>>>>

trim_primer(sequence, length) ==
    LET bases == SliceFrom(sequence[2][1], length)
    IN IF Len(sequence[2]) > 1
       THEN <<sequence[1], <<bases, SliceFrom(sequence[2][2], length)>>>>
       ELSE <<sequence[1], <<bases>>>>

-----------------------------------------------------------------------------
(* compare_sequences, lines 192-223 *)

\* line 205 with "or" for "and": every shifted read or shifted primer is skipped
SkipCombination_or(read_shift, primer_shift) == read_shift # 0 \/ primer_shift # 0

\* line 205: the combination of a shifted read and a shifted primer is skipped
SkipCombination(read_shift, primer_shift) == read_shift # 0 /\ primer_shift # 0

\* lines 208-213: the 'hamming' branch is guarded by a literal False
DistanceValues(method, sequence, primer_sequence, read_shift, primer_shift, max_mis) ==
    IF method = "hamming" /\ FALSE
    THEN {hamming_distance(SliceTo(sequence, Len(primer_sequence)), primer_sequence)
            + Abs(read_shift - primer_shift)}
    ELSE {d + Abs(read_shift - primer_shift) :
            d \in levenshtein_distance(SliceTo(sequence, Len(primer_sequence)),
                                       primer_sequence, max_mis)}

\* The for loop over primer_list from its k-th entry on. The result is the set of
\* [distance_results, calls] the loop may end with: calls lists, in order, the
\* (read slice, primer variant) pairs handed to the distance routine. skipping is
\* TRUE in the program; FALSE gives the same loop without line 205.
RECURSIVE CompareFrom(_, _, _, _, _, _, _, _, _)
CompareFrom(skipping, k, sequence, primers, read_shift, method, distance_results, max_mis, calls) ==
    IF k > Len(primers)
    THEN {[distance_results |-> distance_results, calls |-> calls]}
    ELSE LET primer_name == primers[k][1]
             primer_sequence == primers[k][2]
             primer_length == primers[k][3]
             primer_shift == primer_length - Len(primer_sequence)
         IN IF skipping /\ SkipCombination(read_shift, primer_shift)
            THEN CompareFrom(skipping, k + 1, sequence, primers, read_shift, method,
                             distance_results, max_mis, calls)
            ELSE LET ds == DistanceValues(method, sequence, primer_sequence,
                                          read_shift, primer_shift, max_mis)
                     made == Append(calls, <<SliceTo(sequence, Len(primer_sequence)),
                                             primer_sequence>>)
                 IN {[distance_results |->
                          Append(distance_results, <<distance, primer_name, primer_length>>),
                      calls |-> made] : distance \in {d \in ds : d <= max_mis}}
                    \cup
                    (IF \E d \in ds : d > max_mis
                     THEN CompareFrom(skipping, k + 1, sequence, primers, read_shift,
                                      method, distance_results, max_mis, made)
                     ELSE {})

compare_sequences(sequence, primers, read_shift, method, distance_results, max_mis) ==
    CompareFrom(TRUE, 1, sequence, primers, read_shift, method, distance_results,
                max_mis, <<>>)

-----------------------------------------------------------------------------
(* find_best_primer, lines 226-281 *)

\* ASCII order of the characters a sanitized primer name can hold
NameChars ==
    <<"-", "0", "1", "2", "3", "4", "5", "6", "7", "8", "9",
      "A", "B", "C", "D", "E", "F", "G", "H", "I", "J", "K", "L", "M",
      "N", "O", "P", "Q", "R", "S", "T", "U", "V", "W", "X", "Y", "Z", "_",
      "a", "b", "c", "d", "e", "f", "g", "h", "i", "j", "k", "l", "m",
      "n", "o", "p", "q", "r", "s", "t", "u", "v", "w", "x", "y", "z">>

Ord(c) == CHOOSE i \in 1..Len(NameChars) : NameChars[i] = c

\* Python's order on strings
RECURSIVE StrLess(_, _)
StrLess(a, b) ==
    IF b = <<>> THEN FALSE
    ELSE IF a = <<>> THEN TRUE
    ELSE IF a[1] # b[1] THEN Ord(a[1]) < Ord(b[1])
    ELSE StrLess(Tail(a), Tail(b))

\* Python's order on the lists [distance, primer_name, primer_length]
ResultLess(x, y) ==
    \/ x[1] < y[1]
    \/ x[1] = y[1] /\ StrLess(x[2], y[2])
    \/ x[1] = y[1] /\ x[2] = y[2] /\ x[3] < y[3]

\* line 268: distance_results.sort()
RECURSIVE SortResults(_)
SortResults(results) ==
    IF results = <<>> THEN <<>>
    ELSE LET i == CHOOSE i \in 1..Len(results) :
                      \A j \in 1..Len(results) : ~ResultLess(results[j], results[i])
         IN <<results[i]>> \o SortResults(SubSeq(results, 1, i - 1)
                                          \o SubSeq(results, i + 1, Len(results)))

Unsorted == <<"u", "n", "s", "o", "r", "t", "e", "d">>

NoShift == 0 - 1

\* The for loop over read_shift from level r on, lines 241-261: the set of
\* [distance_results, read_shift, calls] it may end with (read_shift is the level
\* of the break, NoShift when the loop runs out).
RECURSIVE LevelsFrom(_, _, _, _, _, _)
LevelsFrom(skipping, read, primers, a, r, calls) ==
    IF r > a.shift
    THEN {[distance_results |-> <<>>, read_shift |-> NoShift, calls |-> calls]}
    ELSE LET sequence == SliceFrom(read[2][1], r)
             hit(o) == [distance_results |-> o.distance_results, read_shift |-> r,
                        calls |-> o.calls]
             first == CompareFrom(skipping, 1, sequence, primers, r, "hamming",
                                  <<>>, a.mis, calls)
             second(o) == CompareFrom(skipping, 1, sequence, primers, r, "levenshtein",
                                      o.distance_results, a.mis, o.calls)
         IN UNION {IF Len(o.distance_results) > 0
                   THEN {hit(o)}
                   ELSE UNION {IF Len(o2.distance_results) > 0
                               THEN {hit(o2)}
                               ELSE LevelsFrom(skipping, read, primers, a, r + 1, o2.calls)
                               : o2 \in second(o)}
                   : o \in first}

\* The whole worker, with or without line 205. Each result is what the worker
\* returns, (read, sink), together with the accepted entry (primer), the level of
\* the break and the distance calls made.
FindBest(skipping, read, primers, size, a) ==
    IF Len(read[2][1]) <= size
    THEN {[read |-> read, sink |-> Unsorted, primer |-> <<>>, read_shift |-> NoShift,
           calls |-> <<>>]}
    ELSE {IF Len(o.distance_results) >= 1
          THEN LET primer == SortResults(o.distance_results)[1]
               IN [read |-> IF a.trim = TRUE THEN trim_primer(read, primer[3]) ELSE read,
                   sink |-> primer[2], primer |-> primer, read_shift |-> o.read_shift,
                   calls |-> o.calls]
          ELSE [read |-> read, sink |-> Unsorted, primer |-> <<>>,
                read_shift |-> NoShift, calls |-> o.calls]
          : o \in LevelsFrom(skipping, read, primers, a, 0, <<>>)}

find_best_primer(read, primers, size, a) == FindBest(TRUE, read, primers, size, a)

\* A worker running the compiled routine out of bounds may also die in it.
MayCrash(read, primers, size, a) ==
    \E o \in find_best_primer(read, primers, size, a) :
        \E i \in 1..Len(o.calls) : LevOutOfBounds(o.calls[i][1], o.calls[i][2])

-----------------------------------------------------------------------------
(* extract_primers, lines 92-132 *)

IsAlnum(l) == \E i \in 1..Len(NameChars) : NameChars[i] = l /\ l \notin {"-", "_"}

\* line 114: keep the characters that are alphanumeric or one of '-', '_'
RECURSIVE Sanitize(_)
Sanitize(name) ==
    IF name = <<>> THEN <<>>
    ELSE (IF IsAlnum(name[1]) \/ name[1] \in {"-", "_"} THEN <<name[1]>> ELSE <<>>)
         \o Sanitize(Tail(name))

\* lines 121-123: the variants of one row, shifts 0..args.shift
RECURSIVE Variants(_, _, _, _)
Variants(name, primer, i, shift) ==
    IF i > shift THEN <<>>
    ELSE <<<<name, SliceFrom(primer, i), Len(primer)>>>>
         \o Variants(name, primer, i + 1, shift)

\* lines 111-126 over the rows from k on
RECURSIVE PrimerListFrom(_, _, _)
PrimerListFrom(rows, k, shift) ==
    IF k > Len(rows) THEN <<>>
    ELSE Variants(Sanitize(rows[k][1]), rows[k][2], 0, shift)
         \o PrimerListFrom(rows, k + 1, shift)

SinkNames(rows) == {Sanitize(rows[k][1]) : k \in 1..Len(rows)} \cup {Unsorted}

\* line 126 keeping the first file opened for a name instead of the last
FirstOpen(rows, name) ==
    IF name = Unsorted THEN Len(rows) + 1
    ELSE CHOOSE k \in 1..Len(rows) :
             /\ Sanitize(rows[k][1]) = name
             /\ \A j \in 1..(k - 1) : Sanitize(rows[j][1]) # name

\* The open() that file_dictionary keeps for a name: the one of the last row
\* with that name (line 126 overwrites), or the one of line 129 (numbered
\* Len(rows) + 1), which comes last of all.
LastOpen(rows, name) ==
    IF name = Unsorted THEN Len(rows) + 1
    ELSE CHOOSE k \in 1..Len(rows) :
             /\ Sanitize(rows[k][1]) = name
             /\ \A j \in (k + 1)..Len(rows) : Sanitize(rows[j][1]) # name

extract_primers(rows, shift) ==
    [primer_list |-> PrimerListFrom(rows, 1, shift),
     file_dictionary |-> [name \in SinkNames(rows) |->
                             [path |-> name, opened |-> LastOpen(rows, name)]]]

\* line 300: the largest original length plus the mismatch budget
\* (sorted(...)[0] raises IndexError on an empty primer list)
SizeOf(primers, mis) ==
    CHOOSE v \in {primers[k][3] + mis : k \in 1..Len(primers)} :
        \A k \in 1..Len(primers) : primers[k][3] + mis <= v

-----------------------------------------------------------------------------
(* Inputs *)

MaxLevLen == 3

MaxLevMis == 3

MaxReadLen == 4

MaxPrimerLen == 2

MaxPrimers == 2

MaxMis == 2

MaxShift == 2

Bases == {"A", "C", "G", "T"}

TwoBases == {"A", "C"}

\* per-base quality scores that tell the positions apart
QualityOf(n) == [i \in 1..n |-> NameChars[i + 1]]

FastaRead(header, bases) == <<header, <<bases>>>>

FastqRead(header, bases) == <<header, <<bases, QualityOf(Len(bases))>>>>

RawName(k) == <<"p", NameChars[k + 2]>>

\* values of the main loop's variables while a single function is exercised
MainIdle ==
    /\ disk = <<>>
    /\ read_generator = [reads |-> <<>>, pos |-> 0]
    /\ group = <<>>
    /\ batch_no = 0
    /\ pool = "none"
    /\ taskqueue = <<>>
    /\ running = <<>>
    /\ it = [items |-> <<>>, index |-> 0, length |-> 0]

NoArgs == [mis |-> 0, shift |-> 0, trim |-> FALSE, chunk_size |-> 1, cores |-> 1]

-----------------------------------------------------------------------------
(* The distance routine on its own *)

LevExamples ==
    {[sequence |-> <<"A", "C", "G", "T">>, primer |-> <<"A", "G", "T">>, max_mis |-> 5],
     [sequence |-> <<"A", "A", "A", "A">>, primer |-> <<"T", "T", "T", "T">>, max_mis |-> 2]}

InitLev ==
    /\ pc = "lev"
    /\ call \in [sequence : SeqsOf(Bases, 0, MaxLevLen),
                  primer : SeqsOf(Bases, 0, MaxLevLen),
                  max_mis : 0..MaxLevMis] \cup LevExamples
    /\ ret = <<>>
    /\ args = NoArgs
    /\ primer_file = <<>>
    /\ primer_list = <<>>
    /\ file_dictionary = <<>>
    /\ MainIdle

CallLev ==
    /\ pc = "lev"
    /\ ret = <<>>
    /\ \E d \in levenshetein_distance_numba(call.sequence, call.primer, call.max_mis) :
           ret' = <<[kind |-> "value", value |-> d]>>
    /\ UNCHANGED <<mainVars, call>>

CrashLev ==
    /\ pc = "lev"
    /\ ret = <<>>
    /\ LevOutOfBounds(call.sequence, call.primer)
    /\ ret' = <<[kind |-> "crash", value |-> 0]>>
    /\ UNCHANGED <<mainVars, call>>

NextLev == CallLev \/ CrashLev

SpecLev == InitLev /\ [][NextLev]_vars

-----------------------------------------------------------------------------
(* The matcher on its own *)

MatchReads ==
    {FastaRead(<<"r">>, b) : b \in SeqsOf(TwoBases, 1, MaxReadLen)}
    \cup {FastqRead(<<"r">>, b) : b \in SeqsOf(TwoBases, 1, MaxReadLen)}

MatchTables ==
    UNION {[1..n -> SeqsOf(TwoBases, 1, MaxPrimerLen)] : n \in 1..MaxPrimers}

TableRows(t) == [k \in 1..Len(t) |-> <<RawName(k), t[k]>>]

InitMatch ==
    /\ pc = "match"
    /\ args \in [mis : 0..MaxMis, shift : 0..MaxShift, trim : BOOLEAN,
                  chunk_size : {1}, cores : {1}]
    /\ primer_file \in {TableRows(t) : t \in MatchTables}
    /\ primer_list = extract_primers(primer_file, args.shift).primer_list
    /\ file_dictionary = extract_primers(primer_file, args.shift).file_dictionary
    /\ call \in [read : MatchReads, size : {SizeOf(primer_list, args.mis)}]
    /\ ret = <<>>
    /\ MainIdle

CallMatch ==
    /\ pc = "match"
    /\ ret = <<>>
    /\ \E o \in find_best_primer(call.read, primer_list, call.size, args) :
           ret' = <<[kind |-> "value", value |-> o]>>
    /\ UNCHANGED <<mainVars, call>>

CrashMatch ==
    /\ pc = "match"
    /\ ret = <<>>
    /\ MayCrash(call.read, primer_list, call.size, args)
    /\ ret' = <<[kind |-> "crash", value |-> <<>>]>>
    /\ UNCHANGED <<mainVars, call>>

NextMatch == CallMatch \/ CrashMatch

SpecMatch == InitMatch /\ [][NextMatch]_vars

-----------------------------------------------------------------------------
(* write_read, lines 284-291 *)

LineWidth == 60

\* line 291: the bases in lines of 60 characters
RECURSIVE Wrap(_)
Wrap(bases) ==
    IF Len(bases) = 0 THEN <<>>
    ELSE <<SliceTo(bases, LineWidth)>> \o Wrap(SliceFrom(bases, LineWidth))

\* the lines one call writes ('\n'.join of no line is one empty line)
write_read(read) ==
    IF Len(read[2]) > 1
    THEN <<read[1], read[2][1], <<"+">>, read[2][2]>>
    ELSE <<read[1]>> \o (IF Wrap(read[2][1]) = <<>> THEN <<<<>>>> ELSE Wrap(read[2][1]))

-----------------------------------------------------------------------------
(* main, lines 294-334 *)

\* lines 303-306 (Python 2: / on two ints is the floor division)
SubChunk(a) ==
    IF a.chunk_size < a.cores * 10 THEN 1 ELSE a.chunk_size \div (a.cores * 10)

\* line 313 taking one read more than args.chunk_size
islice_one_more(gen, n) ==
    SubSeq(gen.reads, gen.pos + 1, Min2(gen.pos + n + 1, Len(gen.reads)))

\* line 313: itertools.islice(read_generator, n), the reads it yields
islice(gen, n) == SubSeq(gen.reads, gen.pos + 1, Min2(gen.pos + n, Len(gen.reads)))

\* Pool.imap_unordered with chunksize: the task list cut into chunks
RECURSIVE Chunks(_, _)
Chunks(tasks, chunksize) ==
    IF tasks = <<>> THEN <<>>
    ELSE <<SliceTo(tasks, chunksize)>> \o Chunks(SliceFrom(tasks, chunksize), chunksize)

\* IMapUnorderedIterator.next raises StopIteration: nothing queued and every
\* result delivered
Exhausted(iter) == iter.items = <<>> /\ iter.index = iter.length

\* an iterator that hands out its first item without removing it
popleft_keep(items) == items

\* IMapUnorderedIterator.next: self._items.popleft()
popleft(items) == Tail(items)

\* the results a worker may compute for a chunk of (read, primer_list, size)
\* tasks (mapstar over the chunk)
RECURSIVE ChunkResults(_, _)
ChunkResults(chunk, a) ==
    IF chunk = <<>> THEN {<<>>}
    ELSE {<<o>> \o rest : o \in find_best_primer(chunk[1][1], chunk[1][2], chunk[1][3], a),
                          rest \in ChunkResults(Tail(chunk), a)}

Workers == 1..args.cores

\* line 297
ExtractPrimers ==
    /\ pc = "start"
    /\ primer_list' = extract_primers(primer_file, args.shift).primer_list
    /\ file_dictionary' = extract_primers(primer_file, args.shift).file_dictionary
    /\ disk' = [path \in SinkNames(primer_file) |-> <<>>]
    /\ pc' = "size"
    /\ UNCHANGED <<args, primer_file, read_generator, group, batch_no, pool, taskqueue,
                   running, it, call, ret>>

\* lines 300-308: size, sub_chunk, read_generator
ComputeSize ==
    /\ pc = "size"
    /\ primer_list # <<>>
    /\ call' = [size |-> SizeOf(primer_list, args.mis), sub_chunk |-> SubChunk(args)]
    /\ pc' = "pull"
    /\ UNCHANGED <<args, primer_file, primer_list, file_dictionary, disk, read_generator,
                   group, batch_no, pool, taskqueue, running, it, ret>>

\* line 300 on an empty primer list: sorted(...)[0] raises IndexError
SizeError ==
    /\ pc = "size"
    /\ primer_list = <<>>
    /\ pc' = "error"
    /\ UNCHANGED <<args, primer_file, primer_list, file_dictionary, disk, read_generator,
                   group, batch_no, pool, taskqueue, running, it, call, ret>>

\* lines 313-321: the next batch, its pool and its iterator
Pull ==
    /\ pc = "pull"
    /\ islice(read_generator, args.chunk_size) # <<>>
    /\ group' = islice(read_generator, args.chunk_size)
    /\ read_generator' = [read_generator EXCEPT !.pos = @ + Len(group')]
    /\ batch_no' = batch_no + 1
    /\ pool' = "run"
    /\ taskqueue' = Chunks([i \in 1..Len(group') |-> <<group'[i], primer_list, call.size>>],
                           call.sub_chunk)
    /\ running' = [w \in Workers |-> <<>>]
    /\ it' = [items |-> <<>>, index |-> 0, length |-> Len(group')]
    /\ pc' = "loop1"
    /\ UNCHANGED <<args, primer_file, primer_list, file_dictionary, disk, call, ret>>

\* lines 314, 333-334: an empty group ends the run
Finish ==
    /\ pc = "pull"
    /\ islice(read_generator, args.chunk_size) = <<>>
    /\ group' = <<>>
    /\ pc' = "done"
    /\ UNCHANGED <<args, primer_file, primer_list, file_dictionary, disk, read_generator,
                   batch_no, pool, taskqueue, running, it, call, ret>>

\* a pool worker takes the next chunk
WorkerTake(w) ==
    /\ pool = "run"
    /\ taskqueue # <<>>
    /\ running[w] = <<>>
    /\ running' = [running EXCEPT ![w] = Head(taskqueue)]
    /\ taskqueue' = Tail(taskqueue)
    /\ UNCHANGED <<pc, args, primer_file, primer_list, file_dictionary, disk,
                   read_generator, group, batch_no, pool, it, call, ret>>

\* a pool worker finishes its chunk and the results reach the iterator
WorkerFinish(w) ==
    /\ pool = "run"
    /\ running[w] # <<>>
    /\ \E results \in ChunkResults(running[w], args) :
           it' = [it EXCEPT !.items = @ \o results, !.index = @ + Len(results)]
    /\ running' = [running EXCEPT ![w] = <<>>]
    /\ UNCHANGED <<pc, args, primer_file, primer_list, file_dictionary, disk,
                   read_generator, group, batch_no, pool, taskqueue, call, ret>>

\* a pool worker dies in an out-of-bounds run of the distance routine: the
\* pool replaces the worker and the chunk's results never arrive
WorkerCrash(w) ==
    /\ pool = "run"
    /\ running[w] # <<>>
    /\ \E i \in 1..Len(running[w]) :
           MayCrash(running[w][i][1], running[w][i][2], running[w][i][3], args)
    /\ running' = [running EXCEPT ![w] = <<>>]
    /\ UNCHANGED <<pc, args, primer_file, primer_list, file_dictionary, disk,
                   read_generator, group, batch_no, pool, taskqueue, it, call, ret>>

\* line 325 / 332: write_read(result[0], file_dictionary[result[1]]). The entry
\* records the lines written, the result they come from, the batch and the
\* writing process.
WriteOne(files, result, dictionary, batch) ==
    [files EXCEPT ![dictionary[result.sink].path] =
        Append(@, [lines |-> write_read(result.read), result |-> result,
                   batch |-> batch, by |-> "main"])]

RECURSIVE WriteAll(_, _, _, _)
WriteAll(files, results, dictionary, batch) ==
    IF results = <<>> THEN files
    ELSE WriteAll(WriteOne(files, Head(results), dictionary, batch), Tail(results),
                  dictionary, batch)

\* lines 324-325: one iteration of the first loop
Loop1Write ==
    /\ pc = "loop1"
    /\ it.items # <<>>
    /\ disk' = WriteOne(disk, Head(it.items), file_dictionary, batch_no)
    /\ it' = [it EXCEPT !.items = popleft(@)]
    /\ UNCHANGED <<pc, args, primer_file, primer_list, file_dictionary, read_generator,
                   group, batch_no, pool, taskqueue, running, call, ret>>

\* line 324: the first loop ends
Loop1End ==
    /\ pc = "loop1"
    /\ Exhausted(it)
    /\ pc' = "close"
    /\ UNCHANGED <<args, primer_file, primer_list, file_dictionary, disk, read_generator,
                   group, batch_no, pool, taskqueue, running, it, call, ret>>

\* lines 326-327: pool.close(), pool.join() (returns once the workers left)
CloseJoin ==
    /\ pc = "close"
    /\ taskqueue = <<>>
    /\ \A w \in Workers : running[w] = <<>>
    /\ pool' = "joined"
    /\ pc' = "loop2"
    /\ UNCHANGED <<args, primer_file, primer_list, file_dictionary, disk, read_generator,
                   group, batch_no, taskqueue, running, it, call, ret>>

\* lines 331-332: the second loop over the same iterator, then back to line
\* 309. After join() no result is outstanding, so the loop writes what is still
\* queued in the iterator and ends.
Loop2 ==
    /\ pc = "loop2"
    /\ it.index = it.length
    /\ disk' = WriteAll(disk, it.items, file_dictionary, batch_no)
    /\ it' = [it EXCEPT !.items = <<>>]
    /\ pc' = "pull"
    /\ UNCHANGED <<args, primer_file, primer_list, file_dictionary, read_generator,
                   group, batch_no, pool, taskqueue, running, call, ret>>

MaxReads == 2

BigChunk == 20

\* reads against the primers AC / CA: one that starts with AC, one that starts
\* with CA, and one that starts with neither and, with a mismatch allowed, is
\* too short to test
MainBases ==
    {<<"A", "C", "A", "C">>, <<"C", "A", "C", "A">>, <<"A", "A", "A">>}

Header(i) == <<"r", NameChars[i + 1]>>

MainSources ==
    UNION {{[i \in 1..n |-> FastaRead(Header(i), b[i])] : b \in [1..n -> MainBases]}
           \cup {[i \in 1..n |-> FastqRead(Header(i), b[i])] : b \in [1..n -> MainBases]}
           : n \in 0..MaxReads}

\* primer files: no row, two primers, two rows whose names sanitize to the
\* same name
MainPrimerFiles ==
    {<<>>,
     <<<<<<"p", "1">>, <<"A", "C">>>>, <<<<"p", "2">>, <<"C", "A">>>>>>,
     <<<<<<"p", "1">>, <<"A", "C">>>>, <<<<"p", ".", "1">>, <<"C", "A">>>>>>}

\* command lines: every (chunk_size, cores) schedule under one matching setup,
\* and every matching setup (mis, shift, trim) under one schedule
MainArgs ==
    {[mis |-> 1, shift |-> 1, trim |-> TRUE, chunk_size |-> c, cores |-> n] :
        c \in {1, 2, BigChunk}, n \in {1, 2}}
    \cup
    {[mis |-> m[1], shift |-> m[2], trim |-> t, chunk_size |-> 2, cores |-> 2] :
        m \in {<<0, 0>>, <<1, 1>>, <<0, 2>>}, t \in BOOLEAN}

Init ==
    /\ pc = "start"
    /\ args \in MainArgs
    /\ primer_file \in MainPrimerFiles
    /\ read_generator \in {[reads |-> src, pos |-> 0] : src \in MainSources}
    /\ primer_list = <<>>
    /\ file_dictionary = <<>>
    /\ disk = <<>>
    /\ group = <<>>
    /\ batch_no = 0
    /\ pool = "none"
    /\ taskqueue = <<>>
    /\ running = <<>>
    /\ it = [items |-> <<>>, index |-> 0, length |-> 0]
    /\ call = [size |-> 0, sub_chunk |-> 0]
    /\ ret = <<>>

Next ==
    \/ ExtractPrimers
    \/ ComputeSize
    \/ SizeError
    \/ Pull
    \/ Finish
    \/ \E w \in Workers : WorkerTake(w)
    \/ \E w \in Workers : WorkerFinish(w)
    \/ \E w \in Workers : WorkerCrash(w)
    \/ Loop1Write
    \/ Loop1End
    \/ CloseJoin
    \/ Loop2

Spec == Init /\ [][Next]_vars

-----------------------------------------------------------------------------
(* The matcher on a read that embeds the primer GATTACA after two junk bases *)

MaxTail == 3

ShiftMaxMis == 3

ShiftMaxShift == 3

Gattaca == <<"G", "A", "T", "T", "A", "C", "A">>

InitShift ==
    /\ pc = "match"
    /\ args \in [mis : 0..ShiftMaxMis, shift : 0..ShiftMaxShift, trim : {FALSE},
                  chunk_size : {1}, cores : {1}]
    /\ primer_file = <<<<RawName(1), Gattaca>>>>
    /\ primer_list = extract_primers(primer_file, args.shift).primer_list
    /\ file_dictionary = extract_primers(primer_file, args.shift).file_dictionary
    /\ call \in [read : {FastaRead(<<"r">>, junk \o Gattaca \o tail) :
                            junk \in SeqsOf(Bases, 2, 2),
                            tail \in SeqsOf(TwoBases, 0, MaxTail)},
                  size : {SizeOf(primer_list, args.mis)}]
    /\ ret = <<>>
    /\ MainIdle

SpecShift == InitShift /\ [][NextMatch]_vars

-----------------------------------------------------------------------------
(* Reference notions the properties are stated with *)

\* the classic unit-cost edit distance
RECURSIVE EditDistance(_, _)
EditDistance(a, b) ==
    IF a = <<>> THEN Len(b)
    ELSE IF b = <<>> THEN Len(a)
    ELSE Min3(EditDistance(Tail(a), b) + 1,
              EditDistance(a, Tail(b)) + 1,
              EditDistance(Tail(a), Tail(b)) + (IF a[1] # b[1] THEN 1 ELSE 0))

PrimerShift(primers, k) == primers[k][3] - Len(primers[k][2])

Scanned(primers, r, k) == ~(r # 0 /\ PrimerShift(primers, k) # 0)

\* the distance the matcher is specified to use for level r and variant k
TrueDistance(bases, primers, r, k) ==
    EditDistance(SliceTo(SliceFrom(bases, r), Len(primers[k][2])), primers[k][2])
        + Abs(r - PrimerShift(primers, k))

\* the scan order: levels ascending, variants in declaration order
ScanBefore(r1, k1, r2, k2) == r1 < r2 \/ (r1 = r2 /\ k1 < k2)

Accepting(bases, primers, a) ==
    {rk \in (0..a.shift) \X (1..Len(primers)) :
        /\ Scanned(primers, rk[1], rk[2])
        /\ TrueDistance(bases, primers, rk[1], rk[2]) <= a.mis}

FirstAccepting(bases, primers, a) ==
    CHOOSE rk \in Accepting(bases, primers, a) :
        \A other \in Accepting(bases, primers, a) :
            other = rk \/ ScanBefore(rk[1], rk[2], other[1], other[2])

Returned == ret # <<>> /\ ret[1].kind = "value"

Tested == Len(call.read[2][1]) > call.size

-----------------------------------------------------------------------------
(* Properties of the distance routine and the matcher *)

\* C2: the routine returns the classic edit distance d(a, b) whenever
\* d(a, b) <= max_cost, and a value above max_cost otherwise, for all a and b.
C2_AgreesWithEditDistance ==
    (pc = "lev" /\ Returned) =>
        LET d == EditDistance(call.sequence, call.primer)
        IN IF d <= call.max_mis THEN ret[1].value = d ELSE ret[1].value > call.max_mis

\* C3 as stated: a tested read made of two junk bases and then GATTACA goes to
\* the primer's sink whenever max_shift >= 2, whatever the mismatch budget.
C3_FoundForEveryBudget ==
    (pc = "match" /\ Returned /\ Tested /\ args.shift >= 2) =>
        ret[1].value.sink = Sanitize(RawName(1))

\* C3 as amended: with GATTACA the only primer, max_shift >= 2 and a mismatch
\* budget of at least 2, the read goes to the primer's sink, accepted at a read
\* shift of at most 2; an acceptance at read shift 2 has distance 2, the shift
\* penalty.
C3_FoundWhenBudgetCoversShift ==
    (pc = "match" /\ Returned /\ Tested /\ args.shift >= 2 /\ args.mis >= 2) =>
        /\ ret[1].value.sink = Sanitize(RawName(1))
        /\ ret[1].value.read_shift \in 0..2
        /\ ret[1].value.read_shift = 2 => ret[1].value.primer[1] = 2

C3_Witness ==
    /\ pc = "match" /\ Returned /\ Tested
    /\ args.shift >= 2 /\ args.mis >= 2
    /\ ret[1].value.sink = Sanitize(RawName(1))
    /\ ret[1].value.read_shift = 2

C8_LowestDistanceAtLevel ==
    (pc = "match" /\ Returned /\ ret[1].value.primer # <<>>) =>
        LET o == ret[1].value
        IN \A k \in 1..Len(primer_list) :
               Scanned(primer_list, o.read_shift, k) =>
                   TrueDistance(call.read[2][1], primer_list, o.read_shift, k)
                       >= o.primer[1]

SameAnswer(o1, o2) ==
    /\ o1.sink = o2.sink
    /\ (o1.primer = <<>>) = (o2.primer = <<>>)
    /\ o1.primer # <<>> => o1.primer[1] = o2.primer[1]

\* C9: the matcher returns the (sink, distance) that the same matcher without
\* the skip of line 205 returns.
C9_SkipIsRedundant ==
    (pc = "match" /\ Returned) =>
        \E o2 \in FindBest(FALSE, call.read, primer_list, call.size, args) :
            SameAnswer(ret[1].value, o2)

\* C10: in every distance call made for a tested read the read slice has
\* exactly the length of the primer variant, so that the rows, which hold
\* len(read slice) + 1 cells, are indexed within bounds. (The claim's other
\* half, that neither is empty, fails as well: a variant shifted by the primer's
\* whole length is empty.)
C10_CallsHaveEqualLengths ==
    (pc = "match" /\ Returned /\ Tested) =>
        \A i \in 1..Len(ret[1].value.calls) :
            Len(ret[1].value.calls[i][1]) = Len(ret[1].value.calls[i][2])

-----------------------------------------------------------------------------
(* Properties of the main loop *)

Entries == UNION {{p} \X (1..Len(disk[p])) : p \in DOMAIN disk}

EntryAt(pi) == disk[pi[1]][pi[2]]

EntriesOf(header) == {pi \in Entries : EntryAt(pi).result.read[1] = header}

Yielded == 1..read_generator.pos

ReadNo(i) == read_generator.reads[i]

\* C1: no read is written twice, and when main() finishes the write_read calls
\* are as many as the reads yielded, each read written once to one sink.
C1_Conservation ==
    /\ Cardinality(Entries) <= read_generator.pos
    /\ \A i \in 1..Len(read_generator.reads) :
           Cardinality(EntriesOf(ReadNo(i)[1])) <= 1
    /\ pc = "done" =>
           /\ read_generator.pos = Len(read_generator.reads)
           /\ Cardinality(Entries) = read_generator.pos
           /\ \A i \in Yielded : Cardinality(EntriesOf(ReadNo(i)[1])) = 1

C1_Witness ==
    /\ pc = "done"
    /\ batch_no >= 2
    /\ Cardinality(Entries) = MaxReads
    /\ Cardinality({pi[1] : pi \in Entries}) >= 2

\* C4: with trimming on, a read matched to a variant of original length L is
\* written with its header unchanged, its bases from position L on and, in the
\* four-line format, its quality from position L on, as long as the bases.
C4_TrimCorrectness ==
    \A pi \in Entries :
        LET e == EntryAt(pi)
            i == CHOOSE i \in 1..Len(read_generator.reads) : ReadNo(i)[1] = e.result.read[1]
            input == ReadNo(i)
            L == e.result.primer[3]
            sliced(out, in) ==
                /\ Len(out) = Len(in) - L
                /\ \A k \in 1..Len(out) : out[k] = in[k + L]
        IN (args.trim /\ e.result.primer # <<>>) =>
               /\ e.lines[1] = input[1]
               /\ sliced(e.lines[2], input[2][1])
               /\ Len(input[2]) > 1 =>
                      /\ Len(e.lines) = 4
                      /\ sliced(e.lines[4], input[2][2])
                      /\ Len(e.lines[4]) = Len(e.lines[2])

C4_Witness ==
    \E pi \in Entries :
        /\ args.trim
        /\ EntryAt(pi).result.primer # <<>>
        /\ EntryAt(pi).result.primer[1] = 1
        /\ Len(EntryAt(pi).lines) = 4

HasDuplicateNames ==
    \E j, k \in 1..Len(primer_file) :
        j < k /\ Sanitize(primer_file[j][1]) = Sanitize(primer_file[k][1])

TasksOf(chunks) == UNION {{chunks[c][i][1][1] : i \in 1..Len(chunks[c])} : c \in 1..Len(chunks)}

\* headers of the reads handed to the pool and not yet written
Outstanding ==
    TasksOf(taskqueue)
    \cup TasksOf(running)
    \cup {it.items[i].read[1] : i \in 1..Len(it.items)}

GroupHeaders == {group[i][1] : i \in 1..Len(group)}

\* C6: at most chunk_size reads are in flight, all of the current batch; every
\* read yielded before the current batch is on disk; the next batch is pulled
\* only with the pool joined, nothing outstanding and every yielded read
\* written; every write is made by main().
C6_BatchSynchronous ==
    /\ Len(group) <= args.chunk_size
    /\ Outstanding \subseteq GroupHeaders
    /\ \A i \in Yielded : ReadNo(i)[1] \in GroupHeaders \/ EntriesOf(ReadNo(i)[1]) # {}
    /\ \A pi \in Entries : EntryAt(pi).by = "main" /\ EntryAt(pi).batch <= batch_no
    /\ \A pi \in Entries : EntryAt(pi).batch < batch_no =>
                                 EntryAt(pi).result.read[1] \notin GroupHeaders
    /\ (pc = "pull" /\ batch_no >= 1) =>
           /\ pool = "joined"
           /\ Outstanding = {}
           /\ \A i \in Yielded : EntriesOf(ReadNo(i)[1]) # {}

C6_Witness ==
    /\ pc = "loop1"
    /\ batch_no = 2
    /\ Len(group) = 1
    /\ Outstanding # {}
    /\ \E pi \in Entries : EntryAt(pi).batch = 1

=============================================================================
